---- MODULE Spec2Model ----
(***************************************************************************)
(* MindEase chat backend (src/backend/app.py): a Flask process that keeps  *)
(* a chat log in one SQLite table, scores the mood of a message from its   *)
(* sentiment polarity, and asks a remote model for a reply.                *)
(*                                                                         *)
(* Four specifications share the variables:                               *)
(*   Spec      the process with its start-up paths, concurrent /chat and   *)
(*             /moods handlers, and storage faults;                        *)
(*   ServeSpec the same handlers after a __main__ start on a store that    *)
(*             stays reachable (no fault, no restart);                     *)
(*   MoodSpec  analyze_mood applied to every sentiment value;              *)
(*   LogSpec   /moods and a single /chat client on logs longer than the    *)
(*             LIMIT of the query.                                         *)
(***************************************************************************)
EXTENDS Integers, Sequences, FiniteSets, TLC

VARIABLES
    proc,            \* "down" | "main" | "wsgi": how the Flask process was started
    GEMINI_KEY,      \* the credential read from the environment at import
    storeUp,         \* the database file can be opened and written
    sqlite_master,   \* the schema: the sequence of table names of the file
    sqlite_sequence, \* AUTOINCREMENT high-water mark of chats.id
    chats,           \* the rows of table chats
    req,             \* per client: the /chat request being handled
    moodsResp,       \* the response of GET /moods, when the step just taken served one
    probe            \* MoodSpec: one analyze_mood evaluation

vars == <<proc, GEMINI_KEY, storeUp, sqlite_master, sqlite_sequence, chats,
          req, moodsResp, probe>>

-----------------------------------------------------------------------------
(* Bounds of the model *)

MaxRows == 4       \* rows the log may hold in Spec and ServeSpec
MaxClock == 0      \* readings of datetime.utcnow() are 0..MaxClock
SubSteps == 4      \* sentiment values per thousandth (resolution of TextBlob's float)
ExtraRows == 2     \* LogSpec: rows beyond the LIMIT of /moods in the stored log
NearLimit == 4     \* LogSpec: /chat is served on logs within NearLimit rows of the LIMIT

Clients == {"c1", "c2"}

(* Program constants *)

DB_PATH == "mindease.db"
MoodsLimit == 50
Scale == 50
Thousand == 1000

-----------------------------------------------------------------------------
(* Texts are sequences of tokens; "" is the empty sequence. *)

Whitespace == {" ", "\n"}

MISSING_KEY_REPLY == <<"Server missing Gemini API key.">>
FALLBACK_REPLY == <<"Unable to generate response. Please try again.">>
NoText == <<>>

RECURSIVE LStrip(_)
LStrip(t) == IF t # <<>> /\ Head(t) \in Whitespace THEN LStrip(Tail(t)) ELSE t

RECURSIVE RStrip(_)
RStrip(t) ==
    IF t # <<>> /\ t[Len(t)] \in Whitespace THEN RStrip(SubSeq(t, 1, Len(t) - 1)) ELSE t

Strip(t) == RStrip(LStrip(t))

-----------------------------------------------------------------------------
(* IEEE-754 double arithmetic on non-negative values, as CPython evaluates *)
(* (polarity + 1) * 50.  A value is held exactly as an integer number of   *)
(* 2^-(FracLimbs*LimbBits), in little-endian limbs of LimbBits bits.       *)

LimbBits == 12
Limbs == 7
FracLimbs == 6
Mantissa == 53

RECURSIVE Pow2(_)
Pow2(n) == IF n = 0 THEN 1 ELSE 2 * Pow2(n - 1)

Base == Pow2(LimbBits)

RECURSIVE BitLen(_)
BitLen(x) == IF x = 0 THEN 0 ELSE 1 + BitLen(x \div 2)

UnitAt(i) ==
    [j \in 1..Limbs |-> IF j = ((i - 1) \div LimbBits) + 1 THEN Pow2((i - 1) % LimbBits) ELSE 0]

BitAt(X, i) == (X[((i - 1) \div LimbBits) + 1] \div Pow2((i - 1) % LimbBits)) % 2

RECURSIVE AddLimbs(_, _, _, _)
AddLimbs(X, Y, i, carry) ==
    IF i > Limbs THEN <<>>
    ELSE LET s == X[i] + Y[i] + carry
         IN  <<s % Base>> \o AddLimbs(X, Y, i + 1, s \div Base)

RECURSIVE SubLimbs(_, _, _, _)
SubLimbs(X, Y, i, borrow) ==
    IF i > Limbs THEN <<>>
    ELSE LET d == X[i] - Y[i] - borrow
         IN  <<(d + Base) % Base>> \o SubLimbs(X, Y, i + 1, IF d < 0 THEN 1 ELSE 0)

RECURSIVE MulSmall(_, _, _, _)
MulSmall(X, c, i, carry) ==
    IF i > Limbs THEN <<>>
    ELSE LET p == X[i] * c + carry
         IN  <<p % Base>> \o MulSmall(X, c, i + 1, p \div Base)

RECURSIVE TopLimb(_, _)
TopLimb(X, i) == IF i = 0 THEN 0 ELSE IF X[i] # 0 THEN i ELSE TopLimb(X, i - 1)

BitLength(X) ==
    LET t == TopLimb(X, Limbs)
    IN  IF t = 0 THEN 0 ELSE LimbBits * (t - 1) + BitLen(X[t])

(* Round to a 53-bit significand, ties to even. `sticky`: the exact value  *)
(* has non-zero bits below the ones held in X.                             *)
RoundNearestEven(X, sticky) ==
    LET d == BitLength(X) - Mantissa
    IN  IF d <= 0 THEN X
        ELSE LET q    == d \div LimbBits
                 s    == d % LimbBits
                 kept == [j \in 1..Limbs |->
                            IF j <= q THEN 0
                            ELSE IF j = q + 1 THEN X[j] - (X[j] % Pow2(s))
                            ELSE X[j]]
                 rest == sticky \/ \E i \in 1..(d - 1) : BitAt(X, i) = 1
                 up   == BitAt(X, d) = 1 /\ (rest \/ BitAt(X, d + 1) = 1)
             IN  IF up THEN AddLimbs(kept, UnitAt(d + 1), 1, 0) ELSE kept

RECURSIVE DivLimbs(_, _, _)
DivLimbs(r, den, n) ==
    IF n = 0 THEN <<>>
    ELSE DivLimbs((r * Base) % den, den, n - 1) \o <<(r * Base) \div den>>

RECURSIVE DivRem(_, _, _)
DivRem(r, den, n) == IF n = 0 THEN r ELSE DivRem((r * Base) % den, den, n - 1)

(* The double nearest to num/den (0 <= num <= den): the float round(x, 3)  *)
(* returns for the decimal num/1000.                                       *)
ToDouble(num, den) ==
    RoundNearestEven(DivLimbs(num % den, den, FracLimbs) \o <<num \div den>>,
                     DivRem(num % den, den, FracLimbs) # 0)

One == UnitAt(FracLimbs * LimbBits + 1)

(* x + y for a double x of magnitude X (negative when negX) and |x| <= y *)
FloatAdd(negX, X, Y) ==
    IF negX THEN RoundNearestEven(SubLimbs(Y, X, 1, 0), FALSE)
    ELSE RoundNearestEven(AddLimbs(X, Y, 1, 0), FALSE)

FloatMul(X, c) == RoundNearestEven(MulSmall(X, c, 1, 0), FALSE)

(* int(x) of a non-negative double below Base: truncation toward zero *)
PyInt(X) == X[Limbs]

Abs(n) == IF n < 0 THEN -n ELSE n

-----------------------------------------------------------------------------
(* Mood Analyzer.  A sentiment value is an integer number of               *)
(* 1/(Thousand*SubSteps); a polarity is an integer number of thousandths.  *)

RawRange == (-(Thousand * SubSteps))..(Thousand * SubSteps)

(* round(x, 3): the nearest thousandth; on a decimal tie the binary value  *)
(* of the float decides, so either neighbour is possible.                  *)
Round3(raw) ==
    LET q == raw \div SubSteps
        r == raw % SubSteps
    IN  IF 2 * r < SubSteps THEN {q}
        ELSE IF 2 * r > SubSteps THEN {q + 1}
        ELSE {q, q + 1}

(* line 53: int((polarity + 1) * 50) *)
MoodScore(polarity) ==
    PyInt(FloatMul(FloatAdd(polarity < 0, ToDouble(Abs(polarity), Thousand), One), Scale))

analyze_mood(raw) ==
    {[polarity |-> p, mood_score |-> MoodScore(p)] : p \in Round3(raw)}

(* blob.sentiment.polarity of the texts of the model *)
Hopeless == <<"I feel hopeless today">>
Blank == <<" ", " ">>
Messages == {Hopeless, Blank}

Sentiment(text) == IF text = Hopeless THEN -(600 * SubSteps) - 1 ELSE 0

-----------------------------------------------------------------------------
(* Storage Adapter.  db is the file: [master, seq, rows]. *)

TableCount(master) == Cardinality({i \in 1..Len(master) : master[i] = "chats"})
TableExists(master) == TableCount(master) > 0

MaxOf(S) == CHOOSE x \in S : \A y \in S : y <= x
MaxId(rows) == IF rows = {} THEN 0 ELSE MaxOf({r.id : r \in rows})

(* Mutant of NextId: the largest id is handed out again. *)
NextIdReuse(db) == IF db.seq > MaxId(db.rows) THEN db.seq ELSE MaxId(db.rows)

(* id INTEGER PRIMARY KEY AUTOINCREMENT: one more than the largest id the  *)
(* table ever held.                                                        *)
NextId(db) == (IF db.seq > MaxId(db.rows) THEN db.seq ELSE MaxId(db.rows)) + 1

(* Mutant of init_db: DROP TABLE IF EXISTS, then CREATE TABLE. *)
init_db_recreate(db) ==
    [master |-> IF TableExists(db.master) THEN db.master ELSE Append(db.master, "chats"),
     seq |-> 0, rows |-> {}]

(* lines 24-37: CREATE TABLE IF NOT EXISTS chats (...) *)
init_db(db) ==
    IF TableExists(db.master) THEN db
    ELSE [db EXCEPT !.master = Append(db.master, "chats")]

(* Mutant of save_message: the INSERT is never committed. *)
save_message_nocommit(db, up, role, message, mood, now) ==
    [ok |-> up /\ TableExists(db.master), db |-> db]

(* Mutant of save_message: the table is created when it is missing. *)
save_message_autocreate(db, up, role, message, mood, now) ==
    LET made == IF TableExists(db.master) THEN db
                ELSE [db EXCEPT !.master = Append(db.master, "chats")]
    IN  IF up
        THEN [ok |-> TRUE,
              db |-> [made EXCEPT
                        !.rows = db.rows \cup {[id |-> NextId(db), role |-> role,
                                                message |-> message, mood |-> mood,
                                                timestamp |-> now]},
                        !.seq = NextId(db)]]
        ELSE [ok |-> FALSE, db |-> db]

(* lines 39-47: one INSERT, committed.  up: the file can be opened and     *)
(* written.  ok = FALSE: sqlite3 raised and nothing was written.           *)
save_message(db, up, role, message, mood, now) ==
    IF up /\ TableExists(db.master)
    THEN [ok |-> TRUE,
          db |-> [db EXCEPT
                    !.rows = db.rows \cup {[id |-> NextId(db), role |-> role,
                                            message |-> message, mood |-> mood,
                                            timestamp |-> now]},
                    !.seq = NextId(db)]]
    ELSE [ok |-> FALSE, db |-> db]

(* Mutant of SelectRecent: ORDER BY id ASC. *)
RECURSIVE SelectOldest(_, _)
SelectOldest(rows, n) ==
    IF n = 0 \/ rows = {} THEN <<>>
    ELSE LET low == CHOOSE r \in rows : \A q \in rows : r.id <= q.id
         IN  <<low>> \o SelectOldest(rows \ {low}, n - 1)

(* line 105: SELECT ... FROM chats ORDER BY id DESC LIMIT n *)
RECURSIVE SelectRecent(_, _)
SelectRecent(rows, n) ==
    IF n = 0 \/ rows = {} THEN <<>>
    ELSE LET top == CHOOSE r \in rows : \A q \in rows : q.id <= r.id
         IN  <<top>> \o SelectRecent(rows \ {top}, n - 1)

(* datetime.utcnow() at an insert: a wall clock that does not run         *)
(* backwards, read as 0..MaxClock.                                         *)
Clock ==
    LET last == IF chats = {} THEN 0 ELSE MaxOf({r.timestamp : r \in chats})
    IN  {t \in last..(last + 1) : t <= MaxClock}

DB == [master |-> sqlite_master, seq |-> sqlite_sequence, rows |-> chats]

WriteDB(db) ==
    /\ sqlite_master' = db.master
    /\ sqlite_sequence' = db.seq
    /\ chats' = db.rows

-----------------------------------------------------------------------------
(* Response Generator *)

Keys == {"None", "", "key"}        \* os.getenv: unset, set to "", set
(* Mutant of KeyMissing: `if GEMINI_KEY is None`. *)
KeyIsNone(key) == key = "None"

(* line 59: not GEMINI_KEY *)
KeyMissing(key) == key \in {"None", ""}

Completions == {<<" ", "Take a slow breath.", "\n">>}
RemoteOutcomes ==
    {[ok |-> TRUE, text |-> t] : t \in Completions} \cup {[ok |-> FALSE, text |-> NoText]}

(* Mutant of generate_response_gemini: a failed call is tried once more. *)
generate_response_retry(key, outcome) ==
    IF key \in {"None", ""} THEN [reply |-> MISSING_KEY_REPLY, calls |-> 0, logged |-> 0]
    ELSE IF outcome.ok THEN [reply |-> Strip(outcome.text), calls |-> 1, logged |-> 0]
    ELSE [reply |-> FALLBACK_REPLY, calls |-> 2, logged |-> 2]

(* lines 57-76.  outcome: what the one remote call does, if it is made.    *)
(* calls: remote calls made; logged: "Gemini Error:" lines printed.        *)
generate_response_gemini(key, outcome) ==
    IF KeyMissing(key) THEN [reply |-> MISSING_KEY_REPLY, calls |-> 0, logged |-> 0]
    ELSE IF outcome.ok THEN [reply |-> Strip(outcome.text), calls |-> 1, logged |-> 0]
    ELSE [reply |-> FALLBACK_REPLY, calls |-> 1, logged |-> 1]

-----------------------------------------------------------------------------
(* HTTP Surface *)

(* The JSON body of POST /chat: null, an array, or an object whose         *)
(* "message" is absent, null or a string.                                  *)
Body(kind, mtype, text) == [kind |-> kind, mtype |-> mtype, text |-> text]
Bodies ==
    {Body("null", "absent", NoText), Body("array", "absent", NoText),
     Body("object", "absent", NoText), Body("object", "null", NoText),
     Body("object", "str", NoText)}
    \cup {Body("object", "str", m) : m \in Messages}

(* line 82: data.get('message', '') raises AttributeError unless data is a dict *)
HasGet(body) == body.kind = "object"
(* line 84: not user_message *)
Falsy(body) == body.mtype \in {"absent", "null"} \/ body.text = NoText

NoError == "none"
Reply(status, error, reply, mood, polarity) ==
    [status |-> status, error |-> error, reply |-> reply, mood |-> mood,
     polarity |-> polarity]
NoResponse == Reply(0, NoError, NoText, 0, 0)
ServerError == Reply(500, "Internal Server Error", NoText, 0, 0)
BadRequest == Reply(400, "no message provided", NoText, 0, 0)

Idle ==
    [pc |-> "idle", body |-> Body("null", "absent", NoText), polarity |-> 0,
     mood_score |-> 0, bot_reply |-> NoText, calls |-> 0, logged |-> 0,
     resp |-> NoResponse,
     \* history, not program state: what the remote service did, whether the
     \* request overlapped no other, the log when the request arrived
     remote |-> "none", alone |-> TRUE, log0 |-> {}]

Up == proc \in {"main", "wsgi"}

InFlight == {c \in Clients : req[c].pc \in {"save_user", "generate", "save_bot"}}

(* A response is an output of the step that produced it: the next step of *)
(* the system finds the request slot free again.                           *)
Served == [c \in Clients |-> IF req[c].pc = "done" THEN Idle ELSE req[c]]

NoMoods == [status |-> 0, items |-> <<>>]

(* Every in-flight request has now overlapped another one. *)
Overlapped(c) ==
    [d \in Clients |-> IF d # c /\ d \in InFlight THEN [req[d] EXCEPT !.alone = FALSE]
                       ELSE Served[d]]

(* lines 81-88: parse, validate, analyze.  cap bounds the log. *)
ChatValidateWithin(c, body, cap) ==
    /\ Up
    /\ req[c].pc \in {"idle", "done"}
    /\ Cardinality(chats) + 2 * (Cardinality(InFlight) + 1) <= cap
    /\ IF ~HasGet(body)
       THEN req' = [Served EXCEPT ![c] = [Idle EXCEPT !.pc = "done", !.body = body,
                                                      !.resp = ServerError,
                                                      !.log0 = chats]]
       ELSE IF Falsy(body)
       THEN req' = [Served EXCEPT ![c] = [Idle EXCEPT !.pc = "done", !.body = body,
                                                      !.resp = BadRequest,
                                                      !.log0 = chats]]
       ELSE \E a \in analyze_mood(Sentiment(body.text)) :
              req' = [Overlapped(c) EXCEPT ![c] =
                        [Idle EXCEPT !.pc = "save_user", !.body = body,
                                     !.polarity = a.polarity,
                                     !.mood_score = a.mood_score,
                                     !.alone = (InFlight = {}),
                                     !.log0 = chats]]
    /\ moodsResp' = NoMoods
    /\ UNCHANGED <<proc, GEMINI_KEY, storeUp, sqlite_master, sqlite_sequence, chats, probe>>

ChatValidate(c, body) == ChatValidateWithin(c, body, MaxRows)

(* line 89: save_message("user", user_message, mood_score) *)
ChatSaveUser(c, now) ==
    /\ Up
    /\ req[c].pc = "save_user"
    /\ LET w == save_message(DB, storeUp, "user", req[c].body.text, req[c].mood_score, now)
       IN  /\ WriteDB(w.db)
           /\ req' = [Served EXCEPT ![c] =
                        IF w.ok THEN [@ EXCEPT !.pc = "generate"]
                        ELSE [@ EXCEPT !.pc = "done", !.resp = ServerError]]
    /\ moodsResp' = NoMoods
    /\ UNCHANGED <<proc, GEMINI_KEY, storeUp, probe>>

(* line 92: bot_reply = generate_response_gemini(user_message, mood_score) *)
ChatGenerate(c, outcome) ==
    /\ Up
    /\ req[c].pc = "generate"
    /\ LET g == generate_response_gemini(GEMINI_KEY, outcome)
       IN  req' = [Served EXCEPT ![c] =
                     [@ EXCEPT !.pc = "save_bot", !.bot_reply = g.reply,
                               !.calls = @ + g.calls, !.logged = @ + g.logged,
                               !.remote = IF outcome.ok THEN "ok" ELSE "raised"]]
    /\ moodsResp' = NoMoods
    /\ UNCHANGED <<proc, GEMINI_KEY, storeUp, sqlite_master, sqlite_sequence, chats, probe>>

(* lines 93-99: save_message("bot", bot_reply, mood_score); return jsonify(...) *)
ChatSaveBot(c, now) ==
    /\ Up
    /\ req[c].pc = "save_bot"
    /\ LET w == save_message(DB, storeUp, "bot", req[c].bot_reply, req[c].mood_score, now)
       IN  /\ WriteDB(w.db)
           /\ req' = [Served EXCEPT ![c] =
                        IF w.ok
                        THEN [@ EXCEPT !.pc = "done",
                                       !.resp = Reply(200, NoError, req[c].bot_reply,
                                                      req[c].mood_score, req[c].polarity)]
                        ELSE [@ EXCEPT !.pc = "done", !.resp = ServerError]]
    /\ moodsResp' = NoMoods
    /\ UNCHANGED <<proc, GEMINI_KEY, storeUp, probe>>

(* lines 101-113: GET /moods *)
moods(db, up) ==
    IF up /\ TableExists(db.master)
    THEN [status |-> 200, items |-> SelectRecent(db.rows, MoodsLimit)]
    ELSE [status |-> 500, items |-> <<>>]

Moods ==
    /\ Up
    /\ moodsResp' = moods(DB, storeUp)
    /\ req' = Served
    /\ UNCHANGED <<proc, GEMINI_KEY, storeUp, sqlite_master, sqlite_sequence, chats, probe>>

-----------------------------------------------------------------------------
(* The process and its environment *)

(* lines 20, 116-119: python app.py: import, init_db(), app.run().  When   *)
(* the file cannot be opened init_db raises and the process exits.         *)
StartMain(key) ==
    /\ proc = "down"
    /\ storeUp
    /\ WriteDB(init_db(DB))
    /\ proc' = "main"
    /\ GEMINI_KEY' = key
    /\ moodsResp' = NoMoods
    /\ UNCHANGED <<storeUp, req, probe>>

(* lines 14-21: a WSGI server imports the module; __main__ does not run. *)
StartWsgi(key) ==
    /\ proc = "down"
    /\ proc' = "wsgi"
    /\ GEMINI_KEY' = key
    /\ moodsResp' = NoMoods
    /\ UNCHANGED <<storeUp, sqlite_master, sqlite_sequence, chats, req, probe>>

(* The process ends; the requests it was handling get no response. *)
Stop ==
    /\ Up
    /\ proc' = "down"
    /\ GEMINI_KEY' = "None"
    /\ req' = [c \in Clients |-> Idle]
    /\ moodsResp' = NoMoods
    /\ UNCHANGED <<storeUp, sqlite_master, sqlite_sequence, chats, probe>>

StoreFail ==
    /\ storeUp
    /\ storeUp' = FALSE
    /\ moodsResp' = NoMoods
    /\ req' = Served
    /\ UNCHANGED <<proc, GEMINI_KEY, sqlite_master, sqlite_sequence, chats, probe>>

StoreRecover ==
    /\ ~storeUp
    /\ storeUp' = TRUE
    /\ moodsResp' = NoMoods
    /\ req' = Served
    /\ UNCHANGED <<proc, GEMINI_KEY, sqlite_master, sqlite_sequence, chats, probe>>

NoProbe == [pc |-> "off", raw |-> 0, polarity |-> 0, mood_score |-> 0]

Init ==
    /\ proc = "down"
    /\ GEMINI_KEY = "None"
    /\ storeUp = TRUE
    /\ sqlite_master = <<>>
    /\ sqlite_sequence = 0
    /\ chats = {}
    /\ req = [c \in Clients |-> Idle]
    /\ moodsResp = NoMoods
    /\ probe = NoProbe

Next ==
    \/ \E key \in Keys : StartMain(key)
    \/ \E key \in Keys : StartWsgi(key)
    \/ Stop
    \/ StoreFail
    \/ StoreRecover
    \/ \E c \in Clients, body \in Bodies : ChatValidate(c, body)
    \/ \E c \in Clients, now \in Clock : ChatSaveUser(c, now)
    \/ \E c \in Clients, outcome \in RemoteOutcomes : ChatGenerate(c, outcome)
    \/ \E c \in Clients, now \in Clock : ChatSaveBot(c, now)
    \/ Moods

Spec == Init /\ [][Next]_vars

-----------------------------------------------------------------------------
(* ServeSpec: after `python app.py` on a new file, with a store that stays *)
(* reachable and a process that keeps running.                             *)

ServeInit ==
    /\ proc = "main"
    /\ GEMINI_KEY \in Keys
    /\ storeUp = TRUE
    /\ sqlite_master = <<"chats">>
    /\ sqlite_sequence = 0
    /\ chats = {}
    /\ req = [c \in Clients |-> Idle]
    /\ moodsResp = NoMoods
    /\ probe = NoProbe

ServeNext ==
    \/ \E c \in Clients, body \in Bodies : ChatValidate(c, body)
    \/ \E c \in Clients, now \in Clock : ChatSaveUser(c, now)
    \/ \E c \in Clients, outcome \in RemoteOutcomes : ChatGenerate(c, outcome)
    \/ \E c \in Clients, now \in Clock : ChatSaveBot(c, now)
    \/ Moods

ServeSpec == ServeInit /\ [][ServeNext]_vars

-----------------------------------------------------------------------------
(* MoodSpec: analyze_mood on every sentiment value. *)

AnalyzeProbe ==
    /\ probe.pc = "in"
    /\ \E a \in analyze_mood(probe.raw) :
         probe' = [pc |-> "out", raw |-> probe.raw, polarity |-> a.polarity,
                   mood_score |-> a.mood_score]
    /\ UNCHANGED <<proc, GEMINI_KEY, storeUp, sqlite_master, sqlite_sequence, chats,
                   req, moodsResp>>

MoodInit ==
    /\ proc = "down"
    /\ GEMINI_KEY = "None"
    /\ storeUp = TRUE
    /\ sqlite_master = <<>>
    /\ sqlite_sequence = 0
    /\ chats = {}
    /\ req = [c \in Clients |-> Idle]
    /\ moodsResp = NoMoods
    /\ \E raw \in RawRange : probe = [pc |-> "in", raw |-> raw, polarity |-> 0, mood_score |-> 0]

MoodNext == AnalyzeProbe

MoodSpec == MoodInit /\ [][MoodNext]_vars

-----------------------------------------------------------------------------
(* LogSpec: a file that already holds a chat log of up to                  *)
(* MoodsLimit + ExtraRows rows (or no table yet, under a WSGI server),     *)
(* read by /moods; one /chat client appends to the logs near the LIMIT.    *)

LogCap == MoodsLimit + ExtraRows + 2

StoredRow(i) ==
    [id |-> i, role |-> IF i % 2 = 1 THEN "user" ELSE "bot",
     message |-> IF i % 2 = 1 THEN Blank ELSE MISSING_KEY_REPLY,
     mood |-> Scale, timestamp |-> MaxClock]

StoredLog(n) == {StoredRow(i) : i \in 1..n}

LogInit ==
    /\ GEMINI_KEY = "None"
    /\ storeUp = TRUE
    /\ \/ /\ proc = "wsgi"
          /\ sqlite_master = <<>>
          /\ sqlite_sequence = 0
          /\ chats = {}
       \/ /\ proc = "main"
          /\ sqlite_master = <<"chats">>
          /\ \E n \in 0..(MoodsLimit + ExtraRows) :
                sqlite_sequence = n /\ chats = StoredLog(n)
    /\ req = [c \in Clients |-> Idle]
    /\ moodsResp = NoMoods
    /\ probe = NoProbe

LogNext ==
    \/ /\ Cardinality(chats) >= MoodsLimit - NearLimit
       /\ ChatValidateWithin("c1", Body("object", "str", Blank), LogCap)
    \/ \E now \in Clock : ChatSaveUser("c1", now)
    \/ \E outcome \in RemoteOutcomes : ChatGenerate("c1", outcome)
    \/ \E now \in Clock : ChatSaveBot("c1", now)
    \/ Moods

LogSpec == LogInit /\ [][LogNext]_vars

-----------------------------------------------------------------------------
(* Properties *)

Done(c) == req[c].pc = "done"
ValidBody(b) == b.kind = "object" /\ b.mtype = "str" /\ b.text # NoText
StoreWorking == storeUp /\ TableExists(sqlite_master)
CredentialAbsent == GEMINI_KEY \in {"None", ""}

(* The mood and polarity of a response are those of the message's sentiment. *)
MoodOfMessage(c) ==
    \E p \in Round3(Sentiment(req[c].body.text)) :
       /\ req[c].resp.polarity = p
       /\ req[c].resp.mood = MoodScore(p)

(* The request's user row and bot row are in the log, written after it began. *)
Persisted(c) ==
    \E u, b \in chats \ req[c].log0 :
       /\ u.role = "user" /\ u.message = req[c].body.text
       /\ b.role = "bot" /\ b.message = req[c].resp.reply
       /\ u.id < b.id
       /\ u.mood = req[c].resp.mood /\ b.mood = req[c].resp.mood

(* C1: every POST /chat whose body has no `message` field or an empty     *)
(* `message` returns 400 {"error": "no message provided"}, having written  *)
(* nothing to the log and made no remote call.                             *)
C1_NoMessageIs400 ==
    \A c \in Clients :
       Done(c) /\ ~ValidBody(req[c].body) =>
          /\ req[c].resp = BadRequest
          /\ req[c].calls = 0
          /\ chats = req[c].log0

(* The part of C1 the code keeps: bodies that are JSON objects. *)
C1_ObjectWithoutMessageIs400 ==
    \A c \in Clients :
       Done(c) /\ req[c].body.kind = "object" /\ ~ValidBody(req[c].body) =>
          /\ req[c].resp = BadRequest
          /\ req[c].calls = 0
          /\ chats = req[c].log0

C1_NullBodyIs500 ==
    \E c \in Clients : Done(c) /\ req[c].body.kind = "null" /\ req[c].resp.status = 500

(* C2: a POST /chat with a non-empty message that overlaps no other        *)
(* request, on an initialized, working store, leaves the log equal to the  *)
(* log before it plus a user row (the message) and then a bot row (the     *)
(* reply of the response), both with the mood of the response.             *)
C2_AlonePairAppended ==
    \A c \in Clients :
       Done(c) /\ ValidBody(req[c].body) /\ req[c].alone /\ StoreWorking =>
          /\ req[c].resp.status = 200
          /\ \E u, b \in chats :
                /\ chats = req[c].log0 \cup {u, b}
                /\ u \notin req[c].log0 /\ b \notin req[c].log0
                /\ u.role = "user" /\ u.message = req[c].body.text
                /\ b.role = "bot" /\ b.message = req[c].resp.reply
                /\ \A r \in req[c].log0 : r.id < u.id
                /\ u.id < b.id
                /\ u.mood = req[c].resp.mood /\ b.mood = req[c].resp.mood

C2_SecondChatAlone ==
    \E c \in Clients :
       /\ Done(c) /\ req[c].alone /\ req[c].resp.status = 200
       /\ req[c].log0 # {}

(* C3: whenever no /chat request is in progress, in increasing id order    *)
(* each user row is immediately followed by exactly one bot row with the   *)
(* same mood, under every interleaving of concurrent requests.             *)
Follows(r, q) == q.id > r.id /\ \A z \in chats : z.id > r.id => z.id >= q.id

C3_UserThenBot ==
    InFlight = {} =>
       \A u \in chats :
          u.role = "user" =>
             \E b \in chats :
                /\ Follows(u, b)
                /\ b.role = "bot"
                /\ b.mood = u.mood
                /\ \A q \in chats : Follows(b, q) => q.role = "user"

(* C4: for a polarity of p thousandths, mood_score = floor((p+1)*50), lies *)
(* in 0..100, does not decrease with p, and is 50 at p = 0.                *)
C4_FloorOfScaled ==
    probe.pc = "out" =>
       /\ probe.mood_score = ((probe.polarity + Thousand) * Scale) \div Thousand
       /\ probe.mood_score \in 0..(2 * Scale)
       /\ (probe.polarity = 0 => probe.mood_score = Scale)
       /\ (probe.polarity > -Thousand => MoodScore(probe.polarity - 1) <= probe.mood_score)

(* The part of C4 the code keeps: range, monotonicity, the neutral score,  *)
(* and a score at most one below the floor.                                *)
C4_RangeAndMonotone ==
    probe.pc = "out" =>
       /\ probe.mood_score \in 0..(2 * Scale)
       /\ (probe.polarity = 0 => probe.mood_score = Scale)
       /\ (probe.polarity > -Thousand => MoodScore(probe.polarity - 1) <= probe.mood_score)
       /\ ((probe.polarity + Thousand) * Scale) \div Thousand - probe.mood_score \in {0, 1}

(* C5: GET /moods returns the min(50, n) rows with the highest ids, in     *)
(* strictly descending id order, never more than 50, [] on an empty log,   *)
(* and leaves the log unchanged.                                           *)
Newest(items, rows) ==
    /\ Len(items) = (IF Cardinality(rows) < MoodsLimit THEN Cardinality(rows) ELSE MoodsLimit)
    /\ \A i \in 1..Len(items) : items[i] \in rows
    /\ \A i, j \in 1..Len(items) : i < j => items[i].id > items[j].id
    /\ \A r \in rows :
          (\A i \in 1..Len(items) : items[i] # r) =>
             \A i \in 1..Len(items) : r.id < items[i].id

C5_MoodsAlwaysNewest ==
    moodsResp # NoMoods =>
       /\ moodsResp.status = 200
       /\ Newest(moodsResp.items, chats)

(* C5 as amended: the same, whenever the store is reachable and the chats  *)
(* table exists.                                                           *)
C5_MoodsNewestWhenReadable ==
    /\ [](moodsResp # NoMoods /\ StoreWorking =>
             /\ moodsResp.status = 200
             /\ Newest(moodsResp.items, chats))
    /\ [][moodsResp' # NoMoods =>
             /\ chats' = chats
             /\ sqlite_master' = sqlite_master
             /\ sqlite_sequence' = sqlite_sequence]_vars

C5_LimitReached ==
    /\ moodsResp.status = 200
    /\ Len(moodsResp.items) = MoodsLimit
    /\ Cardinality(chats) > MoodsLimit

(* C6: the log is append-only: every row stays as it is, every inserted    *)
(* row gets an id above every id in the table, and the newest-first read   *)
(* returns it first.                                                       *)
C6_AppendOnly ==
    /\ [](\A r, q \in chats : r.id = q.id => r = q)
    /\ [][/\ chats \subseteq chats'
          /\ \A r \in chats' \ chats :
                /\ \A q \in chats : q.id < r.id
                /\ SelectRecent(chats', 1) = <<r>>]_vars

C6_LogAcrossRestart ==
    /\ Cardinality(chats) >= 3
    /\ GEMINI_KEY = "key"
    /\ \E r \in chats : r.message = MISSING_KEY_REPLY

(* C7: with the credential absent, every POST /chat with a non-empty       *)
(* message returns 200 with the fixed missing-credential reply, makes no   *)
(* remote call, carries the mood and polarity of the message, and has its  *)
(* user row and bot row persisted.                                         *)
C7_MissingKeyAlways200 ==
    CredentialAbsent =>
       \A c \in Clients :
          /\ req[c].calls = 0
          /\ Done(c) /\ ValidBody(req[c].body) =>
                /\ req[c].resp.status = 200
                /\ req[c].resp.reply = MISSING_KEY_REPLY
                /\ MoodOfMessage(c)
                /\ Persisted(c)

(* C7 as amended: the same, for the requests whose two appends succeed. *)
C7_MissingKeyFixedReply ==
    CredentialAbsent =>
       \A c \in Clients :
          /\ req[c].calls = 0
          /\ Done(c) /\ ValidBody(req[c].body) /\ StoreWorking =>
                /\ req[c].resp.status = 200
                /\ req[c].resp.reply = MISSING_KEY_REPLY
                /\ MoodOfMessage(c)
                /\ Persisted(c)

C7_EmptyKeyServed ==
    \E c \in Clients : GEMINI_KEY = "" /\ Done(c) /\ req[c].resp.status = 200

(* C8: with the credential present, a failed remote call is caught and     *)
(* logged, the reply is the fixed fallback, the request makes exactly one  *)
(* remote call and returns 200 with the mood and polarity of the message.  *)
C8_RemoteFailureAlways200 ==
    \A c \in Clients :
       GEMINI_KEY = "key" /\ req[c].remote = "raised" =>
          /\ req[c].bot_reply = FALLBACK_REPLY
          /\ req[c].calls = 1
          /\ req[c].logged = 1
          /\ Done(c) =>
                /\ req[c].resp.status = 200
                /\ req[c].resp.reply = FALLBACK_REPLY
                /\ MoodOfMessage(c)

(* C8 as amended: the same, the status being 200 when the bot row's append *)
(* succeeds.                                                               *)
C8_RemoteFailureFallback ==
    \A c \in Clients :
       GEMINI_KEY = "key" /\ req[c].remote = "raised" =>
          /\ req[c].bot_reply = FALLBACK_REPLY
          /\ req[c].calls = 1
          /\ req[c].logged = 1
          /\ Done(c) /\ StoreWorking =>
                /\ req[c].resp.status = 200
                /\ req[c].resp.reply = FALLBACK_REPLY
                /\ MoodOfMessage(c)

C8_FallbackServed ==
    \E c \in Clients :
       /\ GEMINI_KEY = "key" /\ req[c].remote = "raised"
       /\ Done(c) /\ req[c].resp.status = 200

(* C9: init_db is idempotent: on a file that has the chats table it        *)
(* changes nothing, it never leaves two chats tables, and running it twice *)
(* gives what running it once gives, also with rows in the table.          *)
C9_InitIdempotent ==
    /\ [](/\ TableCount(sqlite_master) <= 1
          /\ TableCount(init_db(DB).master) = 1
          /\ init_db(init_db(DB)) = init_db(DB)
          /\ init_db(DB).rows = chats
          /\ (TableExists(sqlite_master) => init_db(DB) = DB))
    /\ [][proc = "down" /\ proc' = "main" =>
             /\ TableCount(sqlite_master') = 1
             /\ chats' = chats
             /\ (TableExists(sqlite_master) =>
                    sqlite_master' = sqlite_master /\ sqlite_sequence' = sqlite_sequence)]_vars

C9_InitOverStoredRows ==
    /\ proc = "main"
    /\ GEMINI_KEY = "key"
    /\ InFlight = {}
    /\ \E r \in chats : r.message = MISSING_KEY_REPLY

(* C10: a failed save_message is not recovered: no 200 reply, no table     *)
(* created (only a __main__ start creates it), nothing rolled back; when   *)
(* the first append fails the log is unchanged and no remote call is made, *)
(* when the second fails the user row stays in the log without a bot row.  *)
C10_StorageFaultPropagates ==
    /\ [](\A c \in Clients :
             Done(c) /\ req[c].resp.status = 500 => req[c].resp.reply = NoText)
    /\ [][sqlite_master' # sqlite_master => proc = "down" /\ proc' = "main"]_vars
    /\ [][\A c \in Clients :
             /\ (req[c].pc = "save_user" /\ req'[c].pc # "save_user"
                    /\ proc' # "down" /\ ~StoreWorking) =>
                   /\ req'[c].pc = "done"
                   /\ req'[c].resp.status = 500
                   /\ req'[c].calls = 0
                   /\ chats' = chats
                   /\ sqlite_master' = sqlite_master
             /\ (req[c].pc = "save_bot" /\ req'[c].pc # "save_bot"
                    /\ proc' # "down" /\ ~StoreWorking) =>
                   /\ req'[c].pc = "done"
                   /\ req'[c].resp.status = 500
                   /\ chats' = chats
                   /\ sqlite_master' = sqlite_master
                   /\ \E u \in chats' \ req[c].log0 :
                         u.role = "user" /\ u.message = req[c].body.text
                   /\ (req[c].alone =>
                          \E u \in chats' : u.role = "user" /\ chats' = req[c].log0 \cup {u})]_vars

C10_SecondAppendFailed ==
    \E c \in Clients :
       /\ Done(c) /\ req[c].resp.status = 500
       /\ req[c].bot_reply # NoText
       /\ \E u \in chats \ req[c].log0 : u.role = "user" /\ u.message = req[c].body.text

====
